---------------------------- MODULE Spec2Model ----------------------------
(***************************************************************************)
(* A model of src/src/blockchain.js (class Blockchain): the in-memory      *)
(* chain, the append path (_addBlock), the chain validator                 *)
(* (validateChain) and the ownership check (submitStar).                   *)
(*                                                                         *)
(* Granularity: one action per JavaScript turn.  A call runs               *)
(* synchronously up to its first `await`; every `await` continuation is a  *)
(* turn of its own (a microtask), and turns of different calls interleave  *)
(* freely.  A `throw` inside an `async` promise executor rejects the       *)
(* executor's own (discarded) promise and leaves the promise that          *)
(* `new Promise` returned pending: that is what "dead" records, and        *)
(* `unhandled` counts those rejections.  What the runtime does with an     *)
(* unhandled rejection (a warning, or the end of the process) is not       *)
(* modelled: ending the process only removes behaviours.                   *)
(***************************************************************************)
EXTENDS Integers, Sequences, FiniteSets, TLC

(***************************************************************************)
(* Bounds of the model.                                                    *)
(***************************************************************************)
MaxCalls == 2        \* public calls made on the instance, beside construction
MaxTicks == 1        \* seconds the clock advances during a run
MaxChain == 2        \* longest chain put in place for an audit (SpecAudit)
MaxAuditCalls == 1   \* public calls made on such a chain (SpecAudit)
StartTime == 1000    \* the clock (epoch seconds) when the model starts

(***************************************************************************)
(* Program constants.                                                      *)
(***************************************************************************)
Window == 300        \* `currentTime - messageTime < 300`

Procs == 0..MaxCalls           \* 0 is the constructor's initializeChain()
Callers == 1..MaxCalls
AuditCallers == 1..MaxAuditCalls

(***************************************************************************)
(* Strings are sequences of one-character strings, so that split(':') and  *)
(* parseInt are computed and not assumed.                                  *)
(***************************************************************************)
DigitChars == {"0", "1", "2", "3", "4", "5", "6", "7", "8", "9"}

DigitVal(c) ==
  CASE c = "0" -> 0 [] c = "1" -> 1 [] c = "2" -> 2 [] c = "3" -> 3
    [] c = "4" -> 4 [] c = "5" -> 5 [] c = "6" -> 6 [] c = "7" -> 7
    [] c = "8" -> 8 [] c = "9" -> 9

\* The not-a-number result of parseInt, and a number result.
NaN == [isNaN |-> TRUE, value |-> 0]
Num(n) == [isNaN |-> FALSE, value |-> n]

\* String.prototype.split(':'): the pieces between the colons.
RECURSIVE SplitFrom(_, _, _)
SplitFrom(s, k, piece) ==
  IF k > Len(s) THEN <<piece>>
  ELSE IF s[k] = ":" THEN <<piece>> \o SplitFrom(s, k + 1, <<>>)
  ELSE SplitFrom(s, k + 1, Append(piece, s[k]))

Split(s) == SplitFrom(s, 1, <<>>)

\* The longest run of decimal digits starting at position k, as a number.
RECURSIVE DigitsFrom(_, _, _)
DigitsFrom(s, k, acc) ==
  IF k <= Len(s) /\ s[k] \in DigitChars
  THEN DigitsFrom(s, k + 1, 10 * acc + DigitVal(s[k]))
  ELSE acc

RECURSIVE SkipSpaces(_, _)
SkipSpaces(s, k) ==
  IF k <= Len(s) /\ s[k] = " " THEN SkipSpaces(s, k + 1) ELSE k

\* parseInt(piece): leading white space is skipped, one sign is accepted,
\* the digits up to the first other character are read; no digit gives NaN.
\* `absent` is parseInt(undefined), which is NaN.
ParseInt(absent, s) ==
  IF absent THEN NaN
  ELSE LET k0 == SkipSpaces(s, 1)
           neg == k0 <= Len(s) /\ s[k0] = "-"
           k1 == IF k0 <= Len(s) /\ s[k0] \in {"-", "+"} THEN k0 + 1 ELSE k0
       IN IF k1 <= Len(s) /\ s[k1] \in DigitChars
          THEN Num(IF neg THEN 0 - DigitsFrom(s, k1, 0) ELSE DigitsFrom(s, k1, 0))
          ELSE NaN

\* parseInt(message.split(':')[1])
MessageTime(message) ==
  LET pieces == Split(message)
  IN ParseInt(Len(pieces) < 2, IF Len(pieces) < 2 THEN <<>> ELSE pieces[2])

\* InWindow with the boundary second let in (`<=` for `<`).
InWindowInclusive(currentTime, messageTime) ==
  ~messageTime.isNaN /\ currentTime - messageTime.value <= Window

\* InWindow with a lower end too: a message time after the current time
\* is outside it.
InWindowTwoSided(currentTime, messageTime) ==
  /\ ~messageTime.isNaN
  /\ currentTime - messageTime.value < Window
  /\ currentTime - messageTime.value >= 0

\* currentTime - messageTime < 300; any comparison with NaN is false.
InWindow(currentTime, messageTime) ==
  ~messageTime.isNaN /\ currentTime - messageTime.value < Window


(***************************************************************************)
(* Blocks.  block.js is not among the sources: the Block class is          *)
(* modelled from the specification's Block entity (its five fields,        *)
(* compute_hash, validate, decode_body).                                   *)
(***************************************************************************)
Null == [null |-> TRUE]

\* SHA256 as an ideal digest: equal digests only for equal inputs.
SHA256(x) == [digest |-> x]

\* The body is stored encoded, and decoded by getBData.
Encode(data) == [hex |-> data]
Decode(body) == body.hex

\* new BlockClass.Block(data)
NewBlock(data) ==
  [hash |-> Null, height |-> 0, body |-> Encode(data), time |-> 0,
   previousBlockHash |-> Null]

\* The digest of a block over every field but the hash itself.
ComputeHash(b) == SHA256([b EXCEPT !.hash = Null])

\* block.validate(): the stored hash against the recomputed one.  The
\* specification leaves open whether a mismatch is a `false` result or a
\* failure of the call, so both are outcomes of a mismatch.
ValidateOutcomes(b) ==
  IF b.hash = ComputeHash(b) THEN {"resolve_true"}
  ELSE {"resolve_false", "reject"}

GenesisData == [data |-> "Genesis Block"]
StarData(a) ==
  [address |-> a.address, message |-> a.message,
   signature |-> a.signature, star |-> a.star]

(***************************************************************************)
(* The inputs of submitStar.                                               *)
(***************************************************************************)
Addresses == {"addr1"}
Stars == {"Polaris"}

\* bitcoinMessage.verify is an external primitive.  A signature is named by
\* what the primitive does with it: it verifies, it does not verify, or it
\* is malformed and the primitive throws.
Signatures == {"sigValid", "sigInvalid", "sigMalformed"}

Verify(message, address, signature) ==
  CASE signature = "sigValid" -> "true"
    [] signature = "sigInvalid" -> "false"
    [] OTHER -> "throw"

\* The timestamp pieces of the messages tried: on both sides of the window
\* at StartTime and StartTime + 1, in the future, a number followed by
\* another character, and not a number.
TimeStrings ==
  { <<"7", "0", "0">>, <<"7", "0", "1">>, <<"1", "3", "0", "1">>,
    <<"7", "0", "x">>, <<"x">>, <<>> }

Messages ==
  { <<"addr1", ":">> \o t \o <<":", "starRegistry">> : t \in TimeStrings }
    \cup { <<"addr1">> }

NoArgs == [address |-> "", message |-> <<>>, signature |-> "", star |-> ""]

(***************************************************************************)
(* State.                                                                  *)
(***************************************************************************)
VARIABLES
  chain,       \* this.chain
  height,      \* this.height
  now,         \* the clock, in seconds
  op,          \* op[p]: the public operation call p is
  pc,          \* pc[p]: where call p is suspended
  args,        \* args[p]: submitStar's arguments
  callTime,    \* callTime[p]: currentTime read by submitStar
  verified,    \* verified[p]: what the awaited verify gave
  block,       \* block[p]: the block _addBlock was given
  vc,          \* vc[p]: validateChain's executor: loop index, errorLog
  heightRead,  \* heightRead[p]: what the awaited getChainHeight gave
  vcPromise,   \* vcPromise[p]: the promise validateChain returned
  abPromise,   \* abPromise[p]: the promise _addBlock returned
  promise,     \* promise[p]: the promise the public call returned
  unhandled,   \* rejections of discarded executor promises
  query,       \* query[p]: the argument of a lookup
  result,      \* result[p]: the value a lookup resolved with
  stars        \* stars[p]: getStarsByWalletAddress's `stars` array

vars ==
  <<chain, height, now, op, pc, args, callTime, verified, block, vc,
    heightRead, vcPromise, abPromise, promise, unhandled, query, result,
    stars>>

\* The state of the lookups.
qvars == <<query, result, stars>>

Pending == [state |-> "pending", reason |-> ""]
Resolved == [state |-> "resolved", reason |-> ""]
Rejected(r) == [state |-> "rejected", reason |-> r]
NotCalled == [state |-> "none", reason |-> ""]

NoVc == [state |-> "none", i |-> 0, errorLog |-> <<>>]

\* `${self.chain[i].height} is invalid`
InvalidEntry(b) == [height |-> b.height, text |-> "is invalid"]

(***************************************************************************)
(* validateChain (lines 218-234).  The chain is indexed from 0 in the      *)
(* code and from 1 here: chain[i] of the code is chain[i + 1].             *)
(***************************************************************************)

\* Lines 229-232, after the loop.  The `let i` of the for statement is out
\* of scope here and no other `i` is declared: evaluating `self.chain[i]`
\* throws a ReferenceError.  The throw is inside the async executor, so
\* `resolve(errorLog)` is not reached and the returned promise stays pending.
LinkageCheck(ch, log) ==
  [state |-> "threw", i |-> Len(ch), errorLog |-> log]

\* The executor from the loop head at index i up to its next await.
RunValidateChain(ch, i, log) ==
  IF i < Len(ch)
  THEN [state |-> "awaitValidate", i |-> i, errorLog |-> log]
  ELSE LinkageCheck(ch, log)

\* The promise validateChain returned, given where its executor is.
VcPromiseOf(v) == IF v.state = "resolved" THEN Resolved ELSE Pending

\* One for each executor that ended by a throw.
Thrown(v) == IF v.state = "threw" THEN 1 ELSE 0

(***************************************************************************)
(* _addBlock (lines 76-100).                                               *)
(***************************************************************************)

\* Lines 76-80: the call of _addBlock(b) by call p, up to its first await.
\* validateChain() is called and its executor runs to its own first await
\* or to its end.
CallAddBlock(p, b) ==
  LET v == RunValidateChain(chain, 0, <<>>)
  IN /\ block' = [block EXCEPT ![p] = b]
     /\ vc' = [vc EXCEPT ![p] = v]
     /\ vcPromise' = [vcPromise EXCEPT ![p] = VcPromiseOf(v)]
     /\ abPromise' = [abPromise EXCEPT ![p] = Pending]
     /\ unhandled' = unhandled + Thrown(v)
     /\ pc' = [pc EXCEPT ![p] = IF v.state = "awaitValidate"
                                THEN "awaitValidate"
                                ELSE "awaitValidateChain"]

\* Lines 80-83: validateChain's promise has resolved.  `chainValidation` is
\* the errorLog array, and an array is truthy whatever it holds, so the
\* branch is taken; getChainHeight() resolves with this.height as it is now.
AddBlockResume(p) ==
  /\ UNCHANGED qvars
  /\ pc[p] = "awaitValidateChain"
  /\ vcPromise[p].state = "resolved"
  /\ heightRead' = [heightRead EXCEPT ![p] = height]
  /\ pc' = [pc EXCEPT ![p] = "awaitGetHeight"]
  /\ UNCHANGED <<chain, height, now, op, args, callTime, verified, block, vc,
                 vcPromise, abPromise, promise, unhandled>>

\* Lines 83-93: the height is assigned, the block linked, stamped, hashed,
\* pushed, and this.height incremented.  Reading `.hash` of a chain entry
\* that does not exist throws, which the inner catch turns into a rejection.
AddBlockPush(p) ==
  /\ UNCHANGED qvars
  /\ pc[p] = "awaitGetHeight"
  /\ LET h == heightRead[p] + 1
         linked == h > 0
     IN IF linked /\ h > Len(chain)
        THEN /\ block' = [block EXCEPT ![p].height = h]
             /\ abPromise' = [abPromise EXCEPT ![p] = Rejected("Block not inserted.")]
             /\ UNCHANGED <<chain, height>>
        ELSE LET b1 == [block[p] EXCEPT
                          !.height = h,
                          !.previousBlockHash =
                             IF linked THEN chain[h].hash ELSE @,
                          !.time = now]
                 b2 == [b1 EXCEPT !.hash = SHA256(b1)]
             IN /\ block' = [block EXCEPT ![p] = b2]
                /\ chain' = Append(chain, b2)
                /\ height' = height + 1
                /\ abPromise' = [abPromise EXCEPT ![p] = Resolved]
  /\ pc' = [pc EXCEPT ![p] = "awaitAddBlock"]
  /\ UNCHANGED <<now, op, args, callTime, verified, vc, heightRead, vcPromise,
                 promise, unhandled>>

\* Lines 47-50 and 143-147: the caller of _addBlock resumes.  submitStar
\* resolves with the block or rejects 'addBlock failed'; initializeChain
\* logs a rejection and returns.
AfterAddBlock(p) ==
  /\ UNCHANGED qvars
  /\ pc[p] = "awaitAddBlock"
  /\ promise' = [promise EXCEPT ![p] =
                   IF op[p] = "submitStar" /\ abPromise[p].state = "rejected"
                   THEN Rejected("addBlock failed") ELSE Resolved]
  /\ pc' = [pc EXCEPT ![p] = "done"]
  /\ UNCHANGED <<chain, height, now, op, args, callTime, verified, block, vc,
                 heightRead, vcPromise, abPromise, unhandled>>

(***************************************************************************)
(* The constructor (lines 25-29) and initializeChain (lines 43-52).        *)
(***************************************************************************)
InitializeChain ==
  /\ UNCHANGED qvars
  /\ pc[0] = "new"
  /\ IF height = -1
     THEN /\ CallAddBlock(0, NewBlock(GenesisData))
          /\ promise' = [promise EXCEPT ![0] = Pending]
     ELSE /\ pc' = [pc EXCEPT ![0] = "done"]
          /\ promise' = [promise EXCEPT ![0] = Resolved]
          /\ UNCHANGED <<block, vc, vcPromise, abPromise, unhandled>>
  /\ UNCHANGED <<chain, height, now, op, args, callTime, verified, heightRead>>

(***************************************************************************)
(* submitStar (lines 133-155).                                             *)
(***************************************************************************)
ArgSets ==
  [address : Addresses, message : Messages, signature : Signatures,
   star : Stars]

\* Calls are numbered in the order they are made, after construction.
MayCall(p) ==
  /\ pc[0] # "new"
  /\ pc[p] = "idle"
  /\ \A q \in Callers : q < p => pc[q] # "idle"

\* Lines 136-140 (and 152): the window test and the call of the signature
\* primitive.  A throw of the primitive ends the executor and leaves the
\* promise pending.
SubmitStar(p, a) ==
  /\ UNCHANGED qvars
  /\ MayCall(p)
  /\ op' = [op EXCEPT ![p] = "submitStar"]
  /\ args' = [args EXCEPT ![p] = a]
  /\ callTime' = [callTime EXCEPT ![p] = now]
  /\ IF InWindow(now, MessageTime(a.message))
     THEN LET r == Verify(a.message, a.address, a.signature)
          IN /\ promise' = [promise EXCEPT ![p] = Pending]
             /\ IF r = "throw"
                THEN /\ pc' = [pc EXCEPT ![p] = "dead"]
                     /\ unhandled' = unhandled + 1
                     /\ UNCHANGED verified
                ELSE /\ pc' = [pc EXCEPT ![p] = "awaitVerify"]
                     /\ verified' = [verified EXCEPT ![p] = (r = "true")]
                     /\ UNCHANGED unhandled
     ELSE /\ promise' = [promise EXCEPT ![p] = Rejected("Not in the time period")]
          /\ pc' = [pc EXCEPT ![p] = "done"]
          /\ UNCHANGED <<verified, unhandled>>
  /\ UNCHANGED <<chain, height, now, block, vc, heightRead, vcPromise, abPromise>>

\* SubmitStarVerified with the test of `verified` left out.
SubmitStarUnverified(p) ==
  /\ UNCHANGED qvars
  /\ pc[p] = "awaitVerify"
  /\ CallAddBlock(p, NewBlock(StarData(args[p])))
  /\ UNCHANGED <<promise, chain, height, now, op, args, callTime, verified,
                 heightRead>>

\* Lines 141-150: after the awaited verify.
SubmitStarVerified(p) ==
  /\ UNCHANGED qvars
  /\ pc[p] = "awaitVerify"
  /\ IF verified[p]
     THEN /\ CallAddBlock(p, NewBlock(StarData(args[p])))
          /\ UNCHANGED promise
     ELSE /\ promise' = [promise EXCEPT ![p] = Rejected("Bitcoin verification failed")]
          /\ pc' = [pc EXCEPT ![p] = "done"]
          /\ UNCHANGED <<block, vc, vcPromise, abPromise, unhandled>>
  /\ UNCHANGED <<chain, height, now, op, args, callTime, verified, heightRead>>

(***************************************************************************)
(* validateChain called as a public method (lines 218-234), and the turn   *)
(* that follows each awaited block.validate().                             *)
(***************************************************************************)
ValidateChain(p) ==
  /\ UNCHANGED qvars
  /\ MayCall(p)
  /\ op' = [op EXCEPT ![p] = "validateChain"]
  /\ LET v == RunValidateChain(chain, 0, <<>>)
     IN /\ vc' = [vc EXCEPT ![p] = v]
        /\ vcPromise' = [vcPromise EXCEPT ![p] = VcPromiseOf(v)]
        /\ promise' = [promise EXCEPT ![p] = VcPromiseOf(v)]
        /\ unhandled' = unhandled + Thrown(v)
        /\ pc' = [pc EXCEPT ![p] = IF v.state = "awaitValidate"
                                   THEN "awaitValidate" ELSE "dead"]
  /\ UNCHANGED <<chain, height, now, args, callTime, verified, block,
                 heightRead, abPromise>>

\* ValidateResume that cuts the chain before a block whose validate() is
\* rejected, instead of only logging it.
ValidateResumePrunes(p) ==
  /\ UNCHANGED qvars
  /\ pc[p] = "awaitValidate"
  /\ \E out \in ValidateOutcomes(chain[vc[p].i + 1]) :
       LET log == IF out = "reject"
                  THEN Append(vc[p].errorLog, InvalidEntry(chain[vc[p].i + 1]))
                  ELSE vc[p].errorLog
           ch == IF out = "reject" THEN SubSeq(chain, 1, vc[p].i) ELSE chain
           v == RunValidateChain(ch, IF out = "reject" THEN vc[p].i
                                     ELSE vc[p].i + 1, log)
       IN /\ chain' = ch
          /\ height' = Len(ch) - 1
          /\ vc' = [vc EXCEPT ![p] = v]
          /\ vcPromise' = [vcPromise EXCEPT ![p] = VcPromiseOf(v)]
          /\ promise' = [promise EXCEPT ![p] =
                           IF op[p] = "validateChain" THEN VcPromiseOf(v) ELSE @]
          /\ unhandled' = unhandled + Thrown(v)
          /\ pc' = [pc EXCEPT ![p] =
                      IF v.state = "awaitValidate" THEN "awaitValidate"
                      ELSE IF op[p] = "validateChain" THEN "dead"
                      ELSE "awaitValidateChain"]
  /\ UNCHANGED <<now, op, args, callTime, verified, block, heightRead,
                 abPromise>>

\* Lines 223-228, then the loop head again: a rejected validate() adds an
\* entry to errorLog, any other result adds nothing.
ValidateResume(p) ==
  /\ UNCHANGED qvars
  /\ pc[p] = "awaitValidate"
  /\ \E out \in ValidateOutcomes(chain[vc[p].i + 1]) :
       LET log == IF out = "reject"
                  THEN Append(vc[p].errorLog, InvalidEntry(chain[vc[p].i + 1]))
                  ELSE vc[p].errorLog
           v == RunValidateChain(chain, vc[p].i + 1, log)
       IN /\ vc' = [vc EXCEPT ![p] = v]
          /\ vcPromise' = [vcPromise EXCEPT ![p] = VcPromiseOf(v)]
          /\ promise' = [promise EXCEPT ![p] =
                           IF op[p] = "validateChain" THEN VcPromiseOf(v) ELSE @]
          /\ unhandled' = unhandled + Thrown(v)
          /\ pc' = [pc EXCEPT ![p] =
                      IF v.state = "awaitValidate" THEN "awaitValidate"
                      ELSE IF op[p] = "validateChain" THEN "dead"
                      ELSE "awaitValidateChain"]
  /\ UNCHANGED <<chain, height, now, op, args, callTime, verified, block,
                 heightRead, abPromise>>

(***************************************************************************)
(* The lookups (lines 57-62 and 163-210).                                  *)
(***************************************************************************)
\* A stored hash that was overwritten (as `block.hash = 999` would).
Forged == [forged |-> 999]
Absent == [forged |-> 1]        \* a hash no stored block has
QueryAddresses == {"addr1", "addr2"}
QueryHeights == -1..MaxChain
QueryHashes(ch) == {Forged, Absent} \cup {ch[k].hash : k \in 1..Len(ch)}

NoQuery == [height |-> -1, hash |-> Null, address |-> ""]
NoResult == [block |-> Null, number |-> 0]
NoStars == [list |-> <<>>, next |-> 0]

\* The positions of ch (from 1) whose block satisfies the test, lowest first.
Lowest(S) == CHOOSE k \in S : \A j \in S : k <= j

\* FindByHeight that takes the height for a position counted from 1.
FindByPosition(ch, h) ==
  IF h \in 1..Len(ch) THEN ch[h] ELSE Null

\* self.chain.find(p => p.height === h): the first block, in chain order,
\* whose height field is h, or undefined.
FindByHeight(ch, h) ==
  LET S == {k \in 1..Len(ch) : ch[k].height = h}
  IN IF S = {} THEN Null ELSE ch[Lowest(S)]

\* The forEach of getBlockByHash: resolve(block) is called for every block
\* whose hash is the argument and only the first call settles the promise.
FirstByHash(ch, x) ==
  LET S == {k \in 1..Len(ch) : ch[k].hash = x}
  IN IF S = {} THEN Null ELSE ch[Lowest(S)]

\* data?.address: undefined when the decoded body has no address.
AddressOf(data) ==
  IF "address" \in DOMAIN data THEN data.address ELSE "undefined"

\* Lines 57-62.
GetChainHeight(p) ==
  /\ MayCall(p)
  /\ op' = [op EXCEPT ![p] = "getChainHeight"]
  /\ result' = [result EXCEPT ![p].number = height]
  /\ promise' = [promise EXCEPT ![p] = Resolved]
  /\ pc' = [pc EXCEPT ![p] = "done"]
  /\ UNCHANGED <<chain, height, now, args, callTime, verified, block, vc,
                 heightRead, vcPromise, abPromise, unhandled, query, stars>>

\* Lines 180-190: the block found, or null.
GetBlockByHeight(p, h) ==
  /\ MayCall(p)
  /\ op' = [op EXCEPT ![p] = "getBlockByHeight"]
  /\ query' = [query EXCEPT ![p].height = h]
  /\ result' = [result EXCEPT ![p].block = FindByHeight(chain, h)]
  /\ promise' = [promise EXCEPT ![p] = Resolved]
  /\ pc' = [pc EXCEPT ![p] = "done"]
  /\ UNCHANGED <<chain, height, now, args, callTime, verified, block, vc,
                 heightRead, vcPromise, abPromise, unhandled, stars>>

\* Lines 163-173: after the forEach, reject('Block not found') is called on
\* every path; it settles the promise when no block matched.
GetBlockByHash(p, x) ==
  /\ MayCall(p)
  /\ op' = [op EXCEPT ![p] = "getBlockByHash"]
  /\ query' = [query EXCEPT ![p].hash = x]
  /\ LET b == FirstByHash(chain, x)
     IN /\ result' = [result EXCEPT ![p].block = b]
        /\ promise' = [promise EXCEPT ![p] =
                         IF b = Null THEN Rejected("Block not found")
                         ELSE Resolved]
  /\ pc' = [pc EXCEPT ![p] = "done"]
  /\ UNCHANGED <<chain, height, now, args, callTime, verified, block, vc,
                 heightRead, vcPromise, abPromise, unhandled, stars>>

\* Lines 198-210: forEach starts one async callback per block, each
\* suspended at `await block.getBData()`; resolve(stars) is then called at
\* once, with the array as it is: empty.  The callbacks fill it afterwards.
GetStarsByWalletAddress(p, a) ==
  /\ MayCall(p)
  /\ op' = [op EXCEPT ![p] = "getStarsByWalletAddress"]
  /\ query' = [query EXCEPT ![p].address = a]
  /\ stars' = [stars EXCEPT ![p] = NoStars]
  /\ promise' = [promise EXCEPT ![p] = Resolved]
  /\ pc' = [pc EXCEPT ![p] = IF Len(chain) > 0 THEN "awaitGetBData" ELSE "done"]
  /\ UNCHANGED <<chain, height, now, args, callTime, verified, block, vc,
                 heightRead, vcPromise, abPromise, unhandled, result>>

\* Lines 203-206: the callback of the next block resumes with its decoded
\* body and pushes it if its address is the one asked for.  The callbacks
\* resume in the order they were suspended.
GetStarsResume(p) ==
  /\ pc[p] = "awaitGetBData"
  /\ LET k == stars[p].next + 1
         data == Decode(chain[k].body)
     IN /\ stars' = [stars EXCEPT ![p] =
                       [list |-> IF AddressOf(data) = query[p].address
                                 THEN Append(stars[p].list, data)
                                 ELSE stars[p].list,
                        next |-> k]]
        /\ pc' = [pc EXCEPT ![p] = IF k < Len(chain) THEN "awaitGetBData"
                                   ELSE "done"]
  /\ UNCHANGED <<chain, height, now, op, args, callTime, verified, block, vc,
                 heightRead, vcPromise, abPromise, promise, unhandled, query,
                 result>>

\* The clock.
Tick ==
  /\ UNCHANGED qvars
  /\ now < StartTime + MaxTicks
  /\ now' = now + 1
  /\ UNCHANGED <<chain, height, op, pc, args, callTime, verified, block, vc,
                 heightRead, vcPromise, abPromise, promise, unhandled>>

(***************************************************************************)
(* Spec: the program from `new Blockchain()` on.  The chain is empty when  *)
(* every validateChain starts, so no turn awaits a block.validate().       *)
(***************************************************************************)
\* Init with the height starting at 0 instead of -1.
InitHeightZero ==
  /\ chain = <<>>
  /\ height = 0
  /\ now = StartTime
  /\ op = [p \in Procs |-> IF p = 0 THEN "initializeChain" ELSE "none"]
  /\ pc = [p \in Procs |-> IF p = 0 THEN "new" ELSE "idle"]
  /\ args = [p \in Procs |-> NoArgs]
  /\ callTime = [p \in Procs |-> 0]
  /\ verified = [p \in Procs |-> FALSE]
  /\ block = [p \in Procs |-> NewBlock(GenesisData)]
  /\ vc = [p \in Procs |-> NoVc]
  /\ heightRead = [p \in Procs |-> -1]
  /\ vcPromise = [p \in Procs |-> NotCalled]
  /\ abPromise = [p \in Procs |-> NotCalled]
  /\ promise = [p \in Procs |-> NotCalled]
  /\ unhandled = 0
  /\ query = [p \in Procs |-> NoQuery]
  /\ result = [p \in Procs |-> NoResult]
  /\ stars = [p \in Procs |-> NoStars]

Init ==
  /\ chain = <<>>
  /\ height = -1
  /\ now = StartTime
  /\ op = [p \in Procs |-> IF p = 0 THEN "initializeChain" ELSE "none"]
  /\ pc = [p \in Procs |-> IF p = 0 THEN "new" ELSE "idle"]
  /\ args = [p \in Procs |-> NoArgs]
  /\ callTime = [p \in Procs |-> 0]
  /\ verified = [p \in Procs |-> FALSE]
  /\ block = [p \in Procs |-> NewBlock(GenesisData)]
  /\ vc = [p \in Procs |-> NoVc]
  /\ heightRead = [p \in Procs |-> -1]
  /\ vcPromise = [p \in Procs |-> NotCalled]
  /\ abPromise = [p \in Procs |-> NotCalled]
  /\ promise = [p \in Procs |-> NotCalled]
  /\ unhandled = 0
  /\ query = [p \in Procs |-> NoQuery]
  /\ result = [p \in Procs |-> NoResult]
  /\ stars = [p \in Procs |-> NoStars]

Next ==
  \/ InitializeChain
  \/ Tick
  \/ \E p \in Callers : \E a \in ArgSets : SubmitStar(p, a)
  \/ \E p \in Callers : SubmitStarVerified(p)
  \/ \E p \in Callers : ValidateChain(p)
  \/ \E p \in Callers : GetChainHeight(p)
  \/ \E p \in Callers : \E h \in QueryHeights : GetBlockByHeight(p, h)
  \/ \E p \in Callers : \E x \in QueryHashes(chain) : GetBlockByHash(p, x)
  \/ \E p \in Callers : \E a \in QueryAddresses : GetStarsByWalletAddress(p, a)

Spec == Init /\ [][Next]_vars

(***************************************************************************)
(* SpecAudit: validateChain and _addBlock on a chain that holds blocks.    *)
(* No run of the program puts a block in the chain (see                    *)
(* AppendNeverResumes), so the chain is given: after construction, blocks  *)
(* are stored in the public `chain` array, some with a stored hash that    *)
(* is not their digest or a previousBlockHash that is not the              *)
(* predecessor's hash.                                                     *)
(***************************************************************************)
BrokenLink == [forged |-> 0]

AuditArgs ==
  [address |-> "addr1",
   message |-> <<"addr1", ":", "7", "0", "1", ":", "starRegistry">>,
   signature |-> "sigValid", star |-> "Polaris"]

\* The block stored at index k: its hash is its digest or forged, its
\* previousBlockHash is `prev`.
AuditBlock(k, prev, hashOk) ==
  LET b == [hash |-> Null, height |-> k,
            body |-> Encode(IF k = 0 THEN GenesisData ELSE StarData(AuditArgs)),
            time |-> StartTime, previousBlockHash |-> prev]
  IN [b EXCEPT !.hash = IF hashOk THEN ComputeHash(b) ELSE Forged]

RECURSIVE AuditChainsOfLen(_)
AuditChainsOfLen(n) ==
  IF n = 0 THEN { <<>> }
  ELSE UNION { { Append(c, AuditBlock(n - 1, prev, hashOk)) :
                   prev \in (IF n = 1 THEN {Null}
                             ELSE {c[n - 1].hash, BrokenLink}),
                   hashOk \in BOOLEAN } :
               c \in AuditChainsOfLen(n - 1) }

AuditChains == UNION { AuditChainsOfLen(n) : n \in 0..MaxChain }

InitAudit ==
  /\ chain \in AuditChains
  /\ height = Len(chain) - 1
  /\ now = StartTime
  /\ op = [p \in Procs |-> IF p = 0 THEN "initializeChain" ELSE "none"]
  /\ pc = [p \in Procs |-> IF p = 0 THEN "awaitValidateChain" ELSE "idle"]
  /\ args = [p \in Procs |-> NoArgs]
  /\ callTime = [p \in Procs |-> 0]
  /\ verified = [p \in Procs |-> FALSE]
  /\ block = [p \in Procs |-> NewBlock(GenesisData)]
  /\ vc = [p \in Procs |-> IF p = 0 THEN RunValidateChain(<<>>, 0, <<>>) ELSE NoVc]
  /\ heightRead = [p \in Procs |-> -1]
  /\ vcPromise = [p \in Procs |-> IF p = 0 THEN Pending ELSE NotCalled]
  /\ abPromise = [p \in Procs |-> IF p = 0 THEN Pending ELSE NotCalled]
  /\ promise = [p \in Procs |-> IF p = 0 THEN Pending ELSE NotCalled]
  /\ unhandled = 1
  /\ query = [p \in Procs |-> NoQuery]
  /\ result = [p \in Procs |-> NoResult]
  /\ stars = [p \in Procs |-> NoStars]

NextAudit ==
  \/ Tick
  \/ \E p \in AuditCallers : \E a \in ArgSets : SubmitStar(p, a)
  \/ \E p \in AuditCallers : SubmitStarVerified(p)
  \/ \E p \in AuditCallers : ValidateChain(p)
  \/ \E p \in AuditCallers : ValidateResume(p)
  \/ \E p \in AuditCallers : GetChainHeight(p)
  \/ \E p \in AuditCallers : \E h \in QueryHeights : GetBlockByHeight(p, h)
  \/ \E p \in AuditCallers : \E x \in QueryHashes(chain) : GetBlockByHash(p, x)
  \/ \E p \in AuditCallers : \E a \in QueryAddresses : GetStarsByWalletAddress(p, a)
  \/ \E p \in AuditCallers : GetStarsResume(p)

SpecAudit == InitAudit /\ [][NextAudit]_vars

(***************************************************************************)
(* The turns of _addBlock after validateChain's promise resolves are       *)
(* never enabled: in neither specification does that promise resolve.      *)
(***************************************************************************)
AppendNeverResumes ==
  \A p \in Procs :
    /\ vcPromise[p].state # "resolved"
    /\ ~ENABLED AddBlockResume(p)
    /\ ~ENABLED AddBlockPush(p)
    /\ ~ENABLED AfterAddBlock(p)

TypeOK ==
  /\ height \in -1..MaxChain
  /\ height = Len(chain) - 1
  /\ now \in StartTime..(StartTime + MaxTicks)
  /\ unhandled \in 0..(MaxCalls + 1)
  /\ \A p \in Procs :
       pc[p] \in {"new", "idle", "awaitVerify", "awaitValidate",
                  "awaitValidateChain", "awaitGetBData", "dead", "done"}

(***************************************************************************)
(* Properties.                                                             *)
(***************************************************************************)

\* An _addBlock call that has started and whose promise has not settled.
InAppend(p) == abPromise[p].state = "pending"

\* Every turn call p may still take, the turns of _addBlock included.
TurnOf(p) ==
  \/ p = 0 /\ InitializeChain
  \/ SubmitStarVerified(p)
  \/ ValidateResume(p)
  \/ AddBlockResume(p)
  \/ AddBlockPush(p)
  \/ AfterAddBlock(p)
  \/ GetStarsResume(p)

\* Call p was made and has no turn left to run.
Quiescent(p) == pc[p] \notin {"new", "idle"} /\ ~ENABLED TurnOf(p)

\* now - messageTime as submitStar computed it (a number, or NaN).
Elapsed(p) ==
  LET t == MessageTime(args[p].message)
  IN IF t.isNaN THEN NaN ELSE Num(callTime[p] - t.value)

IsGenesis(b) ==
  /\ b.height = 0
  /\ b.previousBlockHash = Null
  /\ Decode(b.body) = GenesisData

IntegrityOk(b) == b.hash = ComputeHash(b)
LinkOk(ch, k) == ch[k].previousBlockHash = ch[k - 1].hash
Untampered(ch) ==
  /\ \A k \in 1..Len(ch) : IntegrityOk(ch[k])
  /\ \A k \in 2..Len(ch) : LinkOk(ch, k)

\* A validateChain() call whose executor has run to its end.
ValidateEnded(p) == op[p] = "validateChain" /\ vc[p].state \in {"threw", "resolved"}

\* C1: at most one _addBlock is in flight at a time: no _addBlock starts
\* (and reads the chain) while another has started and not yet settled.
C1_AppendSerialized == Cardinality({p \in Procs : InAppend(p)}) <= 1

\* C4: once the constructor's initializeChain() has no turn left to run,
\* the chain holds exactly the genesis block (height 0, empty
\* previousBlockHash, genesis marker as body) and the stored height is 0;
\* and a non-empty chain always starts with that block.
C4_GenesisInstalled ==
  /\ Quiescent(0) => (Len(chain) = 1 /\ IsGenesis(chain[1]) /\ height = 0)
  /\ Len(chain) > 0 => IsGenesis(chain[1])

\* C5: an _addBlock whose validation of the chain ended with at least one
\* error logged has rejected, and the chain keeps its length and height.
C5_CorruptRejects ==
  \A p \in Procs :
    (abPromise[p].state # "none" /\ vc[p].state \in {"threw", "resolved"}
       /\ vc[p].errorLog # <<>>)
    => /\ abPromise[p] = Rejected("Block chain is altered")
       /\ height = Len(chain) - 1

\* C6: a validateChain() call on an untampered chain (the empty and the
\* genesis-only chain included) that has run to its end has resolved, with
\* an empty error list.
C6_UntamperedResolvesEmpty ==
  \A p \in Callers :
    (ValidateEnded(p) /\ Untampered(chain))
    => (promise[p].state = "resolved" /\ vc[p].errorLog = <<>>)

\* C7: when a validateChain() call has run to its end, its error list names
\* every height i > 0 whose previousBlockHash differs from the hash stored
\* in the block before it.
C7_EveryBrokenLinkReported ==
  \A p \in Callers :
    ValidateEnded(p)
    => \A k \in 2..Len(chain) :
         ~LinkOk(chain, k)
         => \E e \in 1..Len(vc[p].errorLog) : vc[p].errorLog[e].height = k - 1

\* C8: when a validateChain() call on a chain with corrupted blocks has run
\* to its end, it has resolved and its report names the height of every
\* block whose stored hash differs from the recomputed one.
C8_EveryCorruptBlockReported ==
  \A p \in Callers :
    (ValidateEnded(p) /\ \E k \in 1..Len(chain) : ~IntegrityOk(chain[k]))
    => /\ promise[p].state = "resolved"
       /\ \A k \in 1..Len(chain) :
            ~IntegrityOk(chain[k])
            => \E e \in 1..Len(vc[p].errorLog) :
                 vc[p].errorLog[e].height = chain[k].height

\* C9: a submitStar whose message time is 300 seconds or more before the
\* current time is rejected as out of the time period, whatever the
\* signature; it never starts an append, and chain and height stay as
\* constructed.
C9_ExpiredRejected ==
  \A p \in Callers :
    (op[p] = "submitStar" /\ ~Elapsed(p).isNaN /\ Elapsed(p).value >= Window)
    => /\ promise[p] = Rejected("Not in the time period")
       /\ pc[p] = "done"
       /\ abPromise[p].state = "none"
       /\ vc[p] = NoVc
       /\ chain = <<>> /\ height = -1

\* C9 witness: a call exactly 300 seconds late with a signature that would
\* verify has been rejected as out of the time period.
C9_Witness ==
  \E p \in Callers :
    /\ op[p] = "submitStar"
    /\ ~Elapsed(p).isNaN /\ Elapsed(p).value = Window
    /\ args[p].signature = "sigValid"
    /\ promise[p] = Rejected("Not in the time period")

\* C10: a submitStar inside the window whose signature the primitive reports
\* as invalid is rejected as failing verification once the awaited answer
\* is in; it never starts an append, and chain and height stay as
\* constructed.
C10_InvalidSignatureRejected ==
  \A p \in Callers :
    (/\ op[p] = "submitStar"
     /\ ~Elapsed(p).isNaN /\ Elapsed(p).value < Window
     /\ Verify(args[p].message, args[p].address, args[p].signature) = "false")
    => /\ \/ pc[p] = "awaitVerify" /\ promise[p] = Pending
          \/ pc[p] = "done"
               /\ promise[p] = Rejected("Bitcoin verification failed")
       /\ abPromise[p].state = "none"
       /\ vc[p] = NoVc
       /\ chain = <<>> /\ height = -1

\* C10 witness: such a call, one second inside the window, has been
\* rejected as failing verification.
C10_Witness ==
  \E p \in Callers :
    /\ op[p] = "submitStar"
    /\ ~Elapsed(p).isNaN /\ Elapsed(p).value = Window - 1
    /\ args[p].signature = "sigInvalid"
    /\ promise[p] = Rejected("Bitcoin verification failed")

\* The timestamp of call p's message is absent or not a number.
Malformed(p) == op[p] = "submitStar" /\ Elapsed(p).isNaN

\* C11: a submitStar whose message has no timestamp, or one that does not
\* parse, is rejected with an error that is neither the expired-challenge
\* error nor the invalid-signature error, and the chain stays as it was.
C11_MalformedDistinct ==
  \A p \in Callers :
    Malformed(p)
    => /\ promise[p].state = "rejected"
       /\ promise[p].reason \notin {"Not in the time period",
                                    "Bitcoin verification failed"}
       /\ chain = <<>> /\ height = -1

\* C12: a submitStar inside the window with a signature that verifies, on
\* an untampered chain that holds the genesis block, has resolved once it
\* has no turn left to run; its block is the new tip, at the height after
\* the old tip, linked to the old tip's hash, and the stored height is the
\* new tip's.
C12_ValidSubmitAppends ==
  \A p \in Callers :
    (/\ op[p] = "submitStar"
     /\ ~Elapsed(p).isNaN /\ Elapsed(p).value < Window
     /\ Verify(args[p].message, args[p].address, args[p].signature) = "true"
     /\ Len(chain) >= 1 /\ Untampered(chain)
     /\ Quiescent(p))
    => /\ promise[p].state = "resolved"
       /\ \E k \in 2..Len(chain) :
            /\ chain[k] = block[p]
            /\ block[p].height = k - 1
            /\ block[p].previousBlockHash = chain[k - 1].hash
       /\ height = Len(chain) - 1

IsPrefix(a, b) ==
  /\ Len(a) <= Len(b)
  /\ \A k \in 1..Len(a) : a[k] = b[k]

\* C13: across every step the chain before is a prefix of the chain after:
\* no block is removed or moved, and no field of a stored block changes.
C13_AppendOnly == [][IsPrefix(chain, chain')]_vars

\* C13 witness: a chain of two blocks or more on which a submitStar's
\* append has been started and has had every block validated.
C13_Witness ==
  /\ Len(chain) >= 2
  /\ \E q \in Callers :
       /\ op[q] = "submitStar" /\ InAppend(q)
       /\ vc[q].state = "threw" /\ vc[q].i = Len(chain)

C15_EveryCallSettles ==
  \A p \in Callers :
    Quiescent(p) => promise[p].state \in {"resolved", "rejected"}

\* C20: a submitStar whose message time is after the current time is never
\* rejected as out of the time period: it waits for the signature check,
\* is rejected by it if the signature does not verify, and starts an append
\* if it does.
C20_FutureNotExpired ==
  \A p \in Callers :
    (op[p] = "submitStar" /\ ~Elapsed(p).isNaN /\ Elapsed(p).value < 0)
    => /\ promise[p] # Rejected("Not in the time period")
       /\ LET r == Verify(args[p].message, args[p].address, args[p].signature)
          IN /\ r = "true" => (pc[p] = "awaitVerify" \/ InAppend(p))
             /\ r = "false" =>
                  \/ pc[p] = "awaitVerify"
                  \/ promise[p] = Rejected("Bitcoin verification failed")

\* C20 witness: a message timed 300 seconds or more ahead, with a signature
\* that verifies, whose append has been started.
C20_Witness ==
  \E p \in Callers :
    /\ op[p] = "submitStar"
    /\ ~Elapsed(p).isNaN /\ Elapsed(p).value <= 0 - Window
    /\ args[p].signature = "sigValid"
    /\ InAppend(p)

\* The decoded bodies of the blocks of ch whose address is a, in chain order.
StarsOf(ch, a) ==
  SelectSeq([k \in 1..Len(ch) |-> Decode(ch[k].body)],
            LAMBDA d : AddressOf(d) = a)

\* C16: once getStarsByWalletAddress(address) has resolved, its sequence is
\* exactly the decoded payloads of the blocks with that address, in chain
\* order (empty when there is none).
C16_StarsCompleteWhenResolved ==
  \A p \in Callers :
    (op[p] = "getStarsByWalletAddress" /\ promise[p].state = "resolved")
    => stars[p].list = StarsOf(chain, query[p].address)

\* C17: getBlockByHash(hash) resolves: with the lowest block whose stored
\* hash is the argument when there is one, and with an absent result, not a
\* rejection, when there is none.
C17_ByHashResolves ==
  \A p \in Callers :
    op[p] = "getBlockByHash"
    => /\ promise[p].state = "resolved"
       /\ result[p].block = FirstByHash(chain, query[p].hash)

\* C18: getBlockByHeight(height) resolves with the block at chain index
\* height when 0 <= height <= the stored height, and with null otherwise.
C18_ByHeight ==
  \A p \in Callers :
    op[p] = "getBlockByHeight"
    => /\ promise[p] = Resolved
       /\ result[p].block =
            IF 0 <= query[p].height /\ query[p].height <= height
            THEN chain[query[p].height + 1] ELSE Null

\* C18 witness: on a chain of two blocks or more, a lookup at the stored
\* height has resolved with the tip.
C18_Witness ==
  /\ height >= 1
  /\ \E p \in Callers :
       /\ op[p] = "getBlockByHeight" /\ query[p].height = height
       /\ promise[p] = Resolved
       /\ result[p].block = chain[Len(chain)]
=============================================================================
